---- MODULE Spec2Model ----
(***************************************************************************)
(* Mergington High School activities API (src/src/app.py): the file-backed *)
(* FileStorage layer over one JSON file and the HTTP handlers that use it. *)
(*                                                                         *)
(* Python values are modelled as follows.  A dict is a record              *)
(* [order, map]: its keys in insertion order and its key -> value mapping. *)
(* A list is a sequence, a str a string, an int an integer.  The JSON text *)
(* of the data file is a sequence of <<key, value>> members in file order, *)
(* the value of a member of the top-level object being itself a sequence   *)
(* of members (the activity record).                                       *)
(***************************************************************************)
EXTENDS Integers, Sequences, FiniteSets, TLC

VARIABLES
    file,      \* ACTIVITIES_FILE: [exists, text]
    phase,     \* start-up of the process: "new", "constructed", "serving"
    req,       \* the last request handled (one at a time)
    resp,      \* its response
    before,    \* the file as it was when that request arrived
    served,    \* requests handled since start-up, counted up to MaxServed
    pc,        \* per request thread: where it is in its handler
    wdata,     \* per request thread: the local "data" of update_one, as read
    wreq,      \* per request thread: the request it is handling or handled last
    wout,      \* per request thread: what its last update_one call came to
    wresp,     \* per request thread: its last response
    wserved,   \* per request thread: requests taken so far
    ppc,       \* a second process importing the module: where it is in its start-up
    pidx,      \* the seed item its init_db is inserting
    pdata      \* the local "data" of its insert_one, as read

obsvars == <<req, resp, before, served>>

wvars == <<pc, wdata, wreq, wout, wresp, wserved>>

pvars == <<ppc, pidx, pdata>>

vars == <<file, phase, req, resp, before, served,
          pc, wdata, wreq, wout, wresp, wserved, ppc, pidx, pdata>>

(***************************************************************************)
(* Bounds of the model.                                                    *)
(***************************************************************************)
MaxServed == 2
MaxCap == 1
MaxLen == 2
MaxReqs == 1
MaxBootReqs == 2

(***************************************************************************)
(* Python dict.                                                            *)
(***************************************************************************)
EmptyDict == [order |-> <<>>, map |-> <<>>]

DictHas(d, k) == k \in DOMAIN d.map

DictGet(d, k) == d.map[k]

DictLen(d) == Len(d.order)

\* d[k] = v
DictSet(d, k, v) ==
    [order |-> IF DictHas(d, k) THEN d.order ELSE Append(d.order, k),
     map   |-> (k :> v) @@ d.map]

\* d.items()
DictItems(d) == [i \in 1..Len(d.order) |-> <<d.order[i], d.map[d.order[i]]>>]

\* a dict built from items, left to right (a repeated key keeps its first
\* place and takes its last value)
RECURSIVE DictFromItems(_, _, _)
DictFromItems(d, items, i) ==
    IF i > Len(items) THEN d
    ELSE DictFromItems(DictSet(d, items[i][1], items[i][2]), items, i + 1)

\* the items without those of key k
RECURSIVE Without(_, _)
Without(items, k) ==
    IF items = <<>> THEN <<>>
    ELSE IF Head(items)[1] = k THEN Without(Tail(items), k)
    ELSE <<Head(items)>> \o Without(Tail(items), k)

\* d.pop(k): the dict that is left
DictPop(d, k) == DictFromItems(EmptyDict, Without(DictItems(d), k), 1)

\* {"_id": k, **v}
WithId(k, v) == DictFromItems(DictSet(EmptyDict, "_id", k), DictItems(v), 1)

\* dict equality ignores the insertion order
DictEq(a, b) == a.map = b.map

None == [none |-> TRUE]

(***************************************************************************)
(* Python list.                                                            *)
(***************************************************************************)
In(x, l) == \E i \in 1..Len(l) : l[i] = x

Count(x, l) == Cardinality({i \in 1..Len(l) : l[i] = x})

Index(x, l) == CHOOSE i \in 1..Len(l) : l[i] = x /\ \A j \in 1..(i - 1) : l[j] # x

RemoveAt(l, i) == [j \in 1..(Len(l) - 1) |-> IF j < i THEN l[j] ELSE l[j + 1]]

\* variant of ListRemove: every occurrence goes
RECURSIVE ListRemoveAll(_, _)
ListRemoveAll(l, x) ==
    IF l = <<>> THEN <<>>
    ELSE IF Head(l) = x THEN ListRemoveAll(Tail(l), x)
    ELSE <<Head(l)>> \o ListRemoveAll(Tail(l), x)

\* l.remove(x) for x in l: the first occurrence goes
ListRemove(l, x) == RemoveAt(l, Index(x, l))

(***************************************************************************)
(* json.dumps / json.loads on the data the program stores.                 *)
(***************************************************************************)
json_dumps(data) ==
    [i \in 1..Len(data.order) |->
        <<data.order[i], DictItems(data.map[data.order[i]])>>]

json_loads(text) ==
    DictFromItems(EmptyDict,
        [i \in 1..Len(text) |->
            <<text[i][1], DictFromItems(EmptyDict, text[i][2], 1)>>], 1)

(***************************************************************************)
(* FileStorage.                                                            *)
(***************************************************************************)
Missing == [exists |-> FALSE, text |-> <<>>]

\* write_text
FileOf(text) == [exists |-> TRUE, text |-> text]

\* FileStorage.__init__ / _ensure_file_exists
FileStorage(f) == IF ~f.exists THEN FileOf(json_dumps(EmptyDict)) ELSE f

_read(f) == json_loads(f.text)

_write(data) == FileOf(json_dumps(data))

find(f) ==
    LET items == DictItems(_read(f))
    IN [i \in 1..Len(items) |-> WithId(items[i][1], items[i][2])]

\* variant of find_one: the query is not looked at (as in count_documents)
\* and the first document is given
find_one_any(f, query) ==
    LET items == DictItems(_read(f))
    IN IF Len(items) > 0 THEN WithId(items[1][1], items[1][2]) ELSE None

find_one(f, query) ==
    LET data == _read(f)
        _id == DictGet(query, "_id")
    IN IF DictHas(data, _id) THEN WithId(_id, DictGet(data, _id)) ELSE None

\* {"_id": name}
Query(name) == DictSet(EmptyDict, "_id", name)

\* {"$push": {field: value}} and {"$pull": {field: value}}
Update(op, field, value) == [op |-> op, field |-> field, value |-> value]

\* variant of update_apply: a record that is not there is made (an upsert)
update_apply_upsert(data, query, update) ==
    LET _id == DictGet(query, "_id")
        rec == IF DictHas(data, _id) THEN DictGet(data, _id) ELSE EmptyDict
        old == IF DictHas(rec, update.field) THEN DictGet(rec, update.field) ELSE <<>>
        new == IF update.op = "$push" THEN Append(old, update.value)
               ELSE IF In(update.value, old) THEN ListRemove(old, update.value)
               ELSE old
    IN IF update.op = "$pull" /\ DictHas(data, _id) /\ ~In(update.value, old)
       THEN [exc |-> "ValueError", modified_count |-> -1, written |-> FALSE, data |-> data]
       ELSE [exc |-> "", modified_count |-> 1, written |-> TRUE,
             data |-> DictSet(data, _id, DictSet(rec, update.field, new))]

\* variant of update_apply: "$pull" removes the value only if it is in the list
update_apply_pull_if_present(data, query, update) ==
    LET _id == DictGet(query, "_id")
        rec == DictGet(data, _id)
        old == IF DictHas(rec, update.field) THEN DictGet(rec, update.field) ELSE <<>>
        new == IF update.op = "$push" THEN Append(old, update.value)
               ELSE IF In(update.value, old) THEN ListRemove(old, update.value)
               ELSE old
    IN IF ~DictHas(data, _id)
       THEN [exc |-> "", modified_count |-> 0, written |-> FALSE, data |-> data]
       ELSE [exc |-> "", modified_count |-> 1, written |-> TRUE,
             data |-> DictSet(data, _id, DictSet(rec, update.field, new))]

\* update_one after its _read(): the in-memory mutation and what comes of it
\* (exc: the exception raised, "" for none, and then modified_count is the
\* count returned, -1 standing for no return; written: _write was called)
update_apply(data, query, update) ==
    LET _id == DictGet(query, "_id")
        rec == DictGet(data, _id)
        field == update.field
        value == update.value
    IN IF ~DictHas(data, _id)
       THEN [exc |-> "", modified_count |-> 0, written |-> FALSE, data |-> data]
       ELSE IF update.op = "$push"
       THEN LET old == IF DictHas(rec, field) THEN DictGet(rec, field) ELSE <<>>
            IN [exc |-> "", modified_count |-> 1, written |-> TRUE,
                data |-> DictSet(data, _id, DictSet(rec, field, Append(old, value)))]
       ELSE IF update.op = "$pull" /\ DictHas(rec, field)
       THEN IF In(value, DictGet(rec, field))
            THEN [exc |-> "", modified_count |-> 1, written |-> TRUE,
                  data |-> DictSet(data, _id,
                              DictSet(rec, field, ListRemove(DictGet(rec, field), value)))]
            ELSE [exc |-> "ValueError", modified_count |-> -1, written |-> FALSE,
                  data |-> data]
       ELSE [exc |-> "", modified_count |-> 1, written |-> TRUE, data |-> data]

update_one(f, query, update) ==
    LET out == update_apply(_read(f), query, update)
    IN [file |-> IF out.written THEN _write(out.data) ELSE f,
        exc |-> out.exc, modified_count |-> out.modified_count]

\* variant of insert_apply: the document replaces what was read
insert_apply_alone(data, doc) == DictSet(EmptyDict, DictGet(doc, "_id"), DictPop(doc, "_id"))

\* insert_one after its _read(): _id = doc.pop("_id"); data[_id] = doc
insert_apply(data, doc) == DictSet(data, DictGet(doc, "_id"), DictPop(doc, "_id"))

insert_one(f, doc) == _write(insert_apply(_read(f), doc))

count_documents(f) == DictLen(_read(f))

(***************************************************************************)
(* Seed data.                                                              *)
(***************************************************************************)
Activity(description, schedule, max_participants, participants) ==
    [order |-> <<"description", "schedule", "max_participants", "participants">>,
     map   |-> [description |-> description, schedule |-> schedule,
                max_participants |-> max_participants,
                participants |-> participants]]

initial_activities ==
    DictFromItems(EmptyDict, <<
        <<"Chess Club", Activity(
            "Learn strategies and compete in chess tournaments",
            "Fridays, 3:30 PM - 5:00 PM", 12,
            <<"michael@mergington.edu", "daniel@mergington.edu">>)>>,
        <<"Programming Class", Activity(
            "Learn programming fundamentals and build software projects",
            "Tuesdays and Thursdays, 3:30 PM - 4:30 PM", 20,
            <<"emma@mergington.edu", "sophia@mergington.edu">>)>>,
        <<"Gym Class", Activity(
            "Physical education and sports activities",
            "Mondays, Wednesdays, Fridays, 2:00 PM - 3:00 PM", 30,
            <<"john@mergington.edu", "olivia@mergington.edu">>)>>,
        <<"Soccer Team", Activity(
            "Join the school soccer team and compete in matches",
            "Tuesdays and Thursdays, 4:00 PM - 5:30 PM", 22,
            <<"liam@mergington.edu", "noah@mergington.edu">>)>>,
        <<"Basketball Team", Activity(
            "Practice basketball skills and participate in tournaments",
            "Wednesdays and Fridays, 3:30 PM - 5:00 PM", 15,
            <<"ava@mergington.edu", "mia@mergington.edu">>)>>,
        <<"Art Club", Activity(
            "Explore various art techniques and create your own masterpieces",
            "Mondays, 3:30 PM - 5:00 PM", 15,
            <<"amelia@mergington.edu", "isabella@mergington.edu">>)>>,
        <<"Drama Club", Activity(
            "Learn acting skills and participate in school plays",
            "Thursdays, 4:00 PM - 5:30 PM", 20,
            <<"lucas@mergington.edu", "elijah@mergington.edu">>)>>,
        <<"Math Club", Activity(
            "Solve challenging math problems and prepare for competitions",
            "Wednesdays, 3:30 PM - 4:30 PM", 10,
            <<"charlotte@mergington.edu", "harper@mergington.edu">>)>>,
        <<"Science Club", Activity(
            "Conduct experiments and explore scientific concepts",
            "Fridays, 4:00 PM - 5:30 PM", 12,
            <<"evelyn@mergington.edu", "abigail@mergington.edu">>)>>
    >>, 1)

\* the i-th document init_db inserts: {"_id": name, **details}
SeedDoc(i) ==
    LET items == DictItems(initial_activities)
    IN WithId(items[i][1], items[i][2])

\* the loop of init_db from its i-th item on (insert_one leaves a file that
\* exists; testing it has TLC evaluate each insert before the next starts)
RECURSIVE SeedFrom(_, _)
SeedFrom(f, i) ==
    IF i > DictLen(initial_activities) THEN f
    ELSE LET g == insert_one(f, SeedDoc(i))
         IN IF g.exists THEN SeedFrom(g, i + 1) ELSE g

init_db(f) == IF count_documents(f) = 0 THEN SeedFrom(f, 1) ELSE f

(***************************************************************************)
(* HTTP handlers: each gives the file it leaves and its response.          *)
(***************************************************************************)
HTTPException(status_code, detail) ==
    [status |-> status_code, kind |-> "detail", body |-> detail]

\* a handler's return value, sent as 200
Ok(kind, body) == [status |-> 200, kind |-> kind, body |-> body]

\* an exception no handler catches: the server answers 500
Unhandled(exc) == [status |-> 500, kind |-> "unhandled", body |-> exc]

\* no error up to the update_one call
Proceed == [status |-> 0, kind |-> "proceed", body |-> ""]

\* f"Signed up {email} for {activity_name}"
SignedUp(email, activity_name) == <<"Signed up ", email, " for ", activity_name>>

\* f"Unregistered {email} from {activity_name}"
Unregistered(email, activity_name) == <<"Unregistered ", email, " from ", activity_name>>

\* variant of CollectFrom: "_id" is read but left in the document
RECURSIVE CollectWithId(_, _, _)
CollectWithId(activities, docs, i) ==
    IF i > Len(docs) THEN activities
    ELSE CollectWithId(DictSet(activities, DictGet(docs[i], "_id"), docs[i]), docs, i + 1)

\* the loop of get_activities from the i-th document on
RECURSIVE CollectFrom(_, _, _)
CollectFrom(activities, docs, i) ==
    IF i > Len(docs) THEN activities
    ELSE CollectFrom(DictSet(activities, DictGet(docs[i], "_id"), DictPop(docs[i], "_id")),
                     docs, i + 1)

get_activities(f) ==
    [file |-> f, resp |-> Ok("activities", CollectFrom(EmptyDict, find(f), 1))]

\* the handler from its update_one result on
signup_result(f, result, activity_name, email) ==
    IF result.exc # "" THEN [file |-> f, resp |-> Unhandled(result.exc)]
    ELSE IF result.modified_count = 0
    THEN [file |-> f, resp |-> HTTPException(500, "Failed to sign up student")]
    ELSE [file |-> f, resp |-> Ok("message", SignedUp(email, activity_name))]

\* variant of signup_check: max_participants is enforced
signup_check_capacity(f, activity_name, email) ==
    LET activity == find_one(f, Query(activity_name))
    IN IF activity = None
       THEN HTTPException(404, "Activity not found")
       ELSE IF In(email, DictGet(activity, "participants"))
       THEN HTTPException(400, "Student is already signed up")
       ELSE IF Len(DictGet(activity, "participants")) >= DictGet(activity, "max_participants")
       THEN HTTPException(400, "Activity is full")
       ELSE Proceed

\* variant of signup_check: no test of the email being signed up already
signup_check_no_member_test(f, activity_name, email) ==
    LET activity == find_one(f, Query(activity_name))
    IN IF activity = None
       THEN HTTPException(404, "Activity not found")
       ELSE Proceed

\* the handler up to its update_one call: the error it raises, or Proceed
signup_check(f, activity_name, email) ==
    LET activity == find_one(f, Query(activity_name))
    IN IF activity = None
       THEN HTTPException(404, "Activity not found")
       ELSE IF In(email, DictGet(activity, "participants"))
       THEN HTTPException(400, "Student is already signed up")
       ELSE Proceed

signup_for_activity(f, activity_name, email) ==
    LET check == signup_check(f, activity_name, email)
    IN IF check # Proceed
       THEN [file |-> f, resp |-> check]
       ELSE LET result == update_one(f, Query(activity_name),
                                     Update("$push", "participants", email))
            IN signup_result(result.file, result, activity_name, email)

unregister_result(f, result, activity_name, email) ==
    IF result.exc # "" THEN [file |-> f, resp |-> Unhandled(result.exc)]
    ELSE IF result.modified_count = 0
    THEN [file |-> f, resp |-> HTTPException(500, "Failed to unregister student")]
    ELSE [file |-> f, resp |-> Ok("message", Unregistered(email, activity_name))]

unregister_check(f, activity_name, email) ==
    LET activity == find_one(f, Query(activity_name))
    IN IF activity = None
       THEN HTTPException(404, "Activity not found")
       ELSE IF ~In(email, DictGet(activity, "participants"))
       THEN HTTPException(400, "Student is not signed up for this activity")
       ELSE Proceed

unregister_from_activity(f, activity_name, email) ==
    LET check == unregister_check(f, activity_name, email)
    IN IF check # Proceed
       THEN [file |-> f, resp |-> check]
       ELSE LET result == update_one(f, Query(activity_name),
                                     Update("$pull", "participants", email))
            IN unregister_result(result.file, result, activity_name, email)

(***************************************************************************)
(* Requests the model sends.                                               *)
(***************************************************************************)
ActivityNames == {"Chess Club", "Programming Class", "Knitting Club"}

Emails == {"michael@mergington.edu", "new@mergington.edu"}

NoRequest == [op |-> "none", name |-> "", email |-> ""]

NoResponse == [status |-> 0, kind |-> "none", body |-> ""]

(***************************************************************************)
(* Request threads of the process and a second process, all sharing the    *)
(* file: what they are when they do not run.                               *)
(***************************************************************************)
Threads == {1, 2}

ConcNames == {"Chess Club", "Programming Class"}

NoOutcome == [called |-> FALSE, exc |-> "", modified_count |-> -1, written |-> FALSE]

ThreadsAt(p) ==
    /\ pc = [w \in Threads |-> p]
    /\ wdata = [w \in Threads |-> EmptyDict]
    /\ wreq = [w \in Threads |-> NoRequest]
    /\ wout = [w \in Threads |-> NoOutcome]
    /\ wresp = [w \in Threads |-> NoResponse]
    /\ wserved = [w \in Threads |-> 0]

OtherAt(p) ==
    /\ ppc = p
    /\ pidx = 0
    /\ pdata = EmptyDict

NoneHandled ==
    /\ req = NoRequest
    /\ resp = NoResponse
    /\ before = file
    /\ served = 0

(***************************************************************************)
(* The process, one request at a time.                                     *)
(***************************************************************************)
Init ==
    /\ file \in {Missing, FileOf(<<>>)}
    /\ phase = "new"
    /\ NoneHandled
    /\ ThreadsAt("off")
    /\ OtherAt("off")

\* activities_collection = FileStorage(ACTIVITIES_FILE)
Construct ==
    /\ phase = "new"
    /\ file' = FileStorage(file)
    /\ phase' = "constructed"
    /\ UNCHANGED <<obsvars, wvars, pvars>>

\* init_db()
InitDb ==
    /\ phase = "constructed"
    /\ file' = init_db(file)
    /\ phase' = "serving"
    /\ UNCHANGED <<obsvars, wvars, pvars>>

Handle(r, out) ==
    /\ req' = r
    /\ before' = file
    /\ file' = out.file
    /\ resp' = out.resp
    /\ served' = IF served < MaxServed THEN served + 1 ELSE served
    /\ UNCHANGED <<phase, wvars, pvars>>

GetActivities ==
    /\ phase = "serving"
    /\ Handle([op |-> "get", name |-> "", email |-> ""], get_activities(file))

Signup ==
    /\ phase = "serving"
    /\ \E n \in ActivityNames, e \in Emails :
          Handle([op |-> "signup", name |-> n, email |-> e],
                 signup_for_activity(file, n, e))

Unregister ==
    /\ phase = "serving"
    /\ \E n \in ActivityNames, e \in Emails :
          Handle([op |-> "unregister", name |-> n, email |-> e],
                 unregister_from_activity(file, n, e))

Next == Construct \/ InitDb \/ GetActivities \/ Signup \/ Unregister

Spec == Init /\ [][Next]_vars

(***************************************************************************)
(* The same process started on a data file that is already there.          *)
(***************************************************************************)
BSeq(S, n) == UNION {[1..k -> S] : k \in 0..n}

ExistingFiles ==
    {_write(DictSet(DictSet(EmptyDict, "Chess Club",
                Activity("Learn strategies and compete in chess tournaments",
                         "Fridays, 3:30 PM - 5:00 PM", cap, ps)),
                "Programming Class", DictGet(initial_activities, "Programming Class"))) :
        cap \in 0..MaxCap, ps \in BSeq(Emails, MaxLen)}

InitFile ==
    /\ file \in ExistingFiles
    /\ phase = "new"
    /\ NoneHandled
    /\ ThreadsAt("off")
    /\ OtherAt("off")

SpecFile == InitFile /\ [][Next]_vars

(***************************************************************************)
(* Request threads: every whole-file read and every whole-file write of a  *)
(* handler is a step of its own.                                           *)
(***************************************************************************)
\* a handler from the request to its update_one call
WBegin(w, r, check, max) ==
    /\ phase = "serving"
    /\ pc[w] \in {"idle", "done"}
    /\ wserved[w] < max
    /\ wserved' = [wserved EXCEPT ![w] = @ + 1]
    /\ wreq' = [wreq EXCEPT ![w] = r]
    /\ wdata' = [wdata EXCEPT ![w] = EmptyDict]
    /\ wout' = [wout EXCEPT ![w] = NoOutcome]
    /\ IF check # Proceed
       THEN pc' = [pc EXCEPT ![w] = "done"] /\ wresp' = [wresp EXCEPT ![w] = check]
       ELSE pc' = [pc EXCEPT ![w] = "update_read"]
            /\ wresp' = [wresp EXCEPT ![w] = NoResponse]
    /\ UNCHANGED <<file, phase, obsvars, pvars>>

WSignup(w, max) ==
    \E n \in ConcNames, e \in Emails :
        WBegin(w, [op |-> "signup", name |-> n, email |-> e],
               signup_check(file, n, e), max)

WUnregister(w, max) ==
    \E n \in ConcNames, e \in Emails :
        WBegin(w, [op |-> "unregister", name |-> n, email |-> e],
               unregister_check(file, n, e), max)

\* update_one: data = self._read()
WUpdateRead(w) ==
    /\ pc[w] = "update_read"
    /\ wdata' = [wdata EXCEPT ![w] = _read(file)]
    /\ pc' = [pc EXCEPT ![w] = "update_write"]
    /\ UNCHANGED <<file, phase, obsvars, wreq, wout, wresp, wserved, pvars>>

\* the update a handler asks for
UpdateOf(r) ==
    Update(IF r.op = "signup" THEN "$push" ELSE "$pull", "participants", r.email)

\* variant of WUpdateWrite: the update is applied to the file as it is now,
\* as if update_one held a lock from its read to its write
WUpdateWriteLocked(w) ==
    /\ pc[w] = "update_write"
    /\ LET r == wreq[w]
           out == update_apply(_read(file), Query(r.name), UpdateOf(r))
           end == IF r.op = "signup"
                  THEN signup_result(file, out, r.name, r.email)
                  ELSE unregister_result(file, out, r.name, r.email)
       IN /\ file' = IF out.written THEN _write(out.data) ELSE file
          /\ wout' = [wout EXCEPT ![w] = [called |-> TRUE, exc |-> out.exc,
                          modified_count |-> out.modified_count, written |-> out.written]]
          /\ wresp' = [wresp EXCEPT ![w] = end.resp]
    /\ pc' = [pc EXCEPT ![w] = "done"]
    /\ UNCHANGED <<phase, obsvars, wdata, wreq, wserved, pvars>>

\* update_one from its read on, and the rest of the handler
WUpdateWrite(w) ==
    /\ pc[w] = "update_write"
    /\ LET r == wreq[w]
           out == update_apply(wdata[w], Query(r.name), UpdateOf(r))
           end == IF r.op = "signup"
                  THEN signup_result(file, out, r.name, r.email)
                  ELSE unregister_result(file, out, r.name, r.email)
       IN /\ file' = IF out.written THEN _write(out.data) ELSE file
          /\ wout' = [wout EXCEPT ![w] = [called |-> TRUE, exc |-> out.exc,
                          modified_count |-> out.modified_count, written |-> out.written]]
          /\ wresp' = [wresp EXCEPT ![w] = end.resp]
    /\ pc' = [pc EXCEPT ![w] = "done"]
    /\ UNCHANGED <<phase, obsvars, wdata, wreq, wserved, pvars>>

InitConc ==
    /\ file = Missing
    /\ phase = "new"
    /\ NoneHandled
    /\ ThreadsAt("idle")
    /\ OtherAt("off")

NextConc ==
    \/ Construct
    \/ InitDb
    \/ \E w \in Threads :
          \/ WSignup(w, MaxReqs)
          \/ WUnregister(w, MaxReqs)
          \/ WUpdateRead(w)
          \/ WUpdateWrite(w)

SpecConc == InitConc /\ [][NextConc]_vars

(***************************************************************************)
(* A second process imports the module while the first starts and serves:  *)
(* its start-up runs step by step beside one request thread of the first.  *)
(***************************************************************************)
\* activities_collection = FileStorage(ACTIVITIES_FILE)
PConstruct ==
    /\ ppc = "new"
    /\ file' = FileStorage(file)
    /\ ppc' = "count"
    /\ UNCHANGED <<phase, obsvars, wvars, pidx, pdata>>

\* init_db: count_documents({}) == 0
PCount ==
    /\ ppc = "count"
    /\ IF count_documents(file) = 0
       THEN ppc' = "insert_read" /\ pidx' = 1
       ELSE ppc' = "serving" /\ pidx' = 0
    /\ UNCHANGED <<file, phase, obsvars, wvars, pdata>>

\* insert_one: data = self._read()
PInsertRead ==
    /\ ppc = "insert_read"
    /\ pdata' = _read(file)
    /\ ppc' = "insert_write"
    /\ UNCHANGED <<file, phase, obsvars, wvars, pidx>>

\* insert_one: data[_id] = doc; self._write(data)
PInsertWrite ==
    /\ ppc = "insert_write"
    /\ file' = _write(insert_apply(pdata, SeedDoc(pidx)))
    /\ pdata' = EmptyDict
    /\ IF pidx < DictLen(initial_activities)
       THEN ppc' = "insert_read" /\ pidx' = pidx + 1
       ELSE ppc' = "serving" /\ pidx' = 0
    /\ UNCHANGED <<phase, obsvars, wvars>>

InitBoot ==
    /\ file = Missing
    /\ phase = "new"
    /\ NoneHandled
    /\ ThreadsAt("idle")
    /\ OtherAt("new")

NextBoot ==
    \/ Construct
    \/ InitDb
    \/ PConstruct
    \/ PCount
    \/ PInsertRead
    \/ PInsertWrite
    \/ WSignup(1, MaxBootReqs)
    \/ WUnregister(1, MaxBootReqs)
    \/ WUpdateRead(1)
    \/ WUpdateWrite(1)

SpecBoot == InitBoot /\ [][NextBoot]_vars

(***************************************************************************)
(* What the properties below read off a state.                             *)
(***************************************************************************)
\* the participants list of activity n in the parsed store d
PartsIn(d, n) == DictGet(DictGet(d, n), "participants")

\* the participants list of activity n in file f
Parts(f, n) == PartsIn(_read(f), n)

Names(f) == DOMAIN _read(f).map

NoDuplicates(l) == \A i, j \in 1..Len(l) : l[i] = l[j] => i = j

\* every activity but n, and every field of n but its participants, is in g
\* what it is in f
OthersSame(f, g, n) ==
    /\ Names(g) = Names(f)
    /\ \A m \in Names(f) \ {n} : DictGet(_read(g), m).map = DictGet(_read(f), m).map
    /\ DOMAIN DictGet(_read(g), n).map = DOMAIN DictGet(_read(f), n).map
    /\ \A k \in (DOMAIN DictGet(_read(f), n).map) \ {"participants"} :
          DictGet(DictGet(_read(g), n), k) = DictGet(DictGet(_read(f), n), k)

IsError(r, status, detail) == r.status = status /\ r.kind = "detail" /\ r.body = detail

IsMessage(r, words) == r.status = 200 /\ r.kind = "message" /\ r.body = words

\* the last request was a signup of an email that was not a participant of
\* the existing activity it names
SignupOfNew ==
    /\ req.op = "signup"
    /\ req.name \in Names(before)
    /\ ~In(req.email, Parts(before, req.name))

(***************************************************************************)
(* C1: a signup of an email that is not yet a participant of an existing   *)
(* activity answers 200 "Signed up e for A" whatever the number of         *)
(* participants is next to max_participants; the email is then in the list *)
(* exactly once, appended after the former participants, and nothing else  *)
(* of the store has changed.                                               *)
(***************************************************************************)
C1_SignupAppends ==
    SignupOfNew =>
        /\ IsMessage(resp, <<"Signed up ", req.email, " for ", req.name>>)
        /\ Parts(file, req.name) = Append(Parts(before, req.name), req.email)
        /\ Count(req.email, Parts(file, req.name)) = 1
        /\ OthersSame(before, file, req.name)

\* ... reached with the activity already at or over its max_participants
C1_SignupWhenFull ==
    /\ SignupOfNew
    /\ Len(Parts(before, req.name)) >=
          DictGet(DictGet(_read(before), req.name), "max_participants")
    /\ resp.status = 200
    /\ Len(Parts(file, req.name)) >
          DictGet(DictGet(_read(file), req.name), "max_participants")

(***************************************************************************)
(* C2: a signup of an email that is already a participant of the activity  *)
(* answers 400 "Student is already signed up" and leaves the whole file as *)
(* it was.                                                                 *)
(***************************************************************************)
C2_DuplicateSignupRejected ==
    (/\ req.op = "signup"
     /\ req.name \in Names(before)
     /\ In(req.email, Parts(before, req.name)))
    => /\ IsError(resp, 400, "Student is already signed up")
       /\ file = before
       /\ Parts(file, req.name) = Parts(before, req.name)

C2_DuplicateSignupSeen ==
    /\ req.op = "signup"
    /\ req.name \in Names(before)
    /\ In(req.email, Parts(before, req.name))
    /\ resp.status = 400

(***************************************************************************)
(* C3: unregistering a participant answers 200 and takes exactly one       *)
(* occurrence of the email out of the list, the others keeping their       *)
(* order; unregistering an email that is not a participant answers 400 and *)
(* leaves the list as it was.                                              *)
(***************************************************************************)
\* list a is list b with its i-th element taken out
IsWithout(a, b, i) ==
    /\ Len(a) = Len(b) - 1
    /\ \A j \in 1..Len(a) : a[j] = IF j < i THEN b[j] ELSE b[j + 1]

C3_UnregisterRemovesOne ==
    (req.op = "unregister" /\ req.name \in Names(before)) =>
        IF In(req.email, Parts(before, req.name))
        THEN /\ IsMessage(resp, <<"Unregistered ", req.email, " from ", req.name>>)
             /\ \E i \in 1..Len(Parts(before, req.name)) :
                   /\ Parts(before, req.name)[i] = req.email
                   /\ IsWithout(Parts(file, req.name), Parts(before, req.name), i)
             /\ Count(req.email, Parts(file, req.name)) =
                   Count(req.email, Parts(before, req.name)) - 1
        ELSE /\ IsError(resp, 400, "Student is not signed up for this activity")
             /\ Parts(file, req.name) = Parts(before, req.name)

\* ... reached for an email that was in the list twice
C3_UnregisterOneOfTwo ==
    /\ req.op = "unregister"
    /\ req.name \in Names(before)
    /\ Count(req.email, Parts(before, req.name)) = 2
    /\ resp.status = 200
    /\ Count(req.email, Parts(file, req.name)) = 1

(***************************************************************************)
(* C4: signup and unregister for a name that is no key of the store answer *)
(* 404 whatever the email, and leave the file as it was: no entry is made  *)
(* for the name.                                                           *)
(***************************************************************************)
C4_UnknownActivityNotFound ==
    (req.op \in {"signup", "unregister"} /\ req.name \notin Names(before)) =>
        /\ IsError(resp, 404, "Activity not found")
        /\ file = before
        /\ req.name \notin Names(file)

C4_UnknownActivitySeen ==
    /\ served = 2
    /\ req.op = "unregister"
    /\ req.name = "Knitting Club"
    /\ req.email = "new@mergington.edu"
    /\ resp.status = 404

(***************************************************************************)
(* C5: from the seeded store on, handling signups and unregisters one at a *)
(* time, no participants list ever holds an email twice.                   *)
(***************************************************************************)
C5_ParticipantsUnique ==
    \A n \in Names(file) : NoDuplicates(Parts(file, n))

\* ... reached after an email left a list and came back
C5_SignedUpAgain ==
    /\ phase = "serving"
    /\ Parts(file, "Chess Club") =
          <<"daniel@mergington.edu", "new@mergington.edu", "michael@mergington.edu">>

(***************************************************************************)
(* C6: started on a missing or empty file, init_db followed by             *)
(* GET /activities gives exactly the 9 seed activities, each with the      *)
(* description, schedule, max_participants and participants of the seed.   *)
(***************************************************************************)
C6_SeedRoundTrip ==
    (served = 1 /\ req.op = "get") =>
        /\ resp.status = 200 /\ resp.kind = "activities"
        /\ DOMAIN resp.body.map = DOMAIN initial_activities.map
        /\ Cardinality(DOMAIN resp.body.map) = 9
        /\ \A n \in DOMAIN resp.body.map :
              DictGet(resp.body, n).map = DictGet(initial_activities, n).map
        /\ DictGet(resp.body, "Math Club").map =
              [description |-> "Solve challenging math problems and prepare for competitions",
               schedule |-> "Wednesdays, 3:30 PM - 4:30 PM",
               max_participants |-> 10,
               participants |-> <<"charlotte@mergington.edu", "harper@mergington.edu">>]

C6_SeedRead ==
    /\ served = 1
    /\ req.op = "get"
    /\ resp.status = 200
    /\ "Science Club" \in DOMAIN resp.body.map

(***************************************************************************)
(* C7: GET /activities answers with a mapping whose keys are the stored    *)
(* activity names, each value being the stored record of its key, without  *)
(* an "_id" field; it leaves the file as it was.                           *)
(***************************************************************************)
C7_GetActivitiesIsTheStore ==
    req.op = "get" =>
        /\ resp.status = 200 /\ resp.kind = "activities"
        /\ DOMAIN resp.body.map = Names(before)
        /\ \A n \in Names(before) :
              /\ DictGet(resp.body, n).map = DictGet(_read(before), n).map
              /\ "_id" \notin DOMAIN DictGet(resp.body, n).map
        /\ file = before

\* ... reached on a store that a signup has changed
C7_GetAfterSignup ==
    /\ req.op = "get"
    /\ resp.status = 200
    /\ In("new@mergington.edu", DictGet(DictGet(resp.body, "Chess Club"), "participants"))

(***************************************************************************)
(* C8: two signups on the same activity, for distinct emails, whose        *)
(* update_one calls both read the file before either wrote it, both answer *)
(* 200 and the file ends with exactly one of the two emails: the other     *)
(* update is lost.                                                         *)
(***************************************************************************)
\* both threads have answered a signup for the same activity and distinct
\* emails, and neither had the other's email in the data it read
OverlappingSignups ==
    /\ pc[1] = "done" /\ pc[2] = "done"
    /\ wreq[1].op = "signup" /\ wreq[2].op = "signup"
    /\ wreq[1].name = wreq[2].name
    /\ wreq[1].email # wreq[2].email
    /\ wout[1].called /\ wout[2].called
    /\ ~In(wreq[2].email, PartsIn(wdata[1], wreq[1].name))
    /\ ~In(wreq[1].email, PartsIn(wdata[2], wreq[2].name))

C8_LostUpdate ==
    OverlappingSignups =>
        /\ wresp[1].status = 200 /\ wresp[2].status = 200
        /\ In(wreq[1].email, Parts(file, wreq[1].name))
              # In(wreq[2].email, Parts(file, wreq[1].name))

C8_LostUpdateReached ==
    /\ OverlappingSignups
    /\ wresp[1].status = 200 /\ wresp[2].status = 200
    /\ In(wreq[2].email, Parts(file, wreq[1].name))
    /\ ~In(wreq[1].email, Parts(file, wreq[1].name))

(***************************************************************************)
(* C9, as claimed: every update_one call returns a modified-count, which   *)
(* is 1 exactly if a record of the name was in the store it read and 0     *)
(* otherwise; with 0 nothing is written and the handler answers 500.       *)
(***************************************************************************)
C9_CountIffRecordExists ==
    \A w \in Threads : wout[w].called =>
        /\ wout[w].exc = ""
        /\ wout[w].modified_count \in {0, 1}
        /\ wout[w].modified_count = 1 <=> DictHas(wdata[w], wreq[w].name)
        /\ wout[w].modified_count = 0 =>
              ~wout[w].written /\ wresp[w].status = 500

(***************************************************************************)
(* C9, amended: update_one returns 0, writing nothing, exactly if no       *)
(* record of the name is in the store it read, and the handler then        *)
(* answers 500; if the record is there it writes and returns 1, except for *)
(* a "$pull" of a value that is not in the record's list, which raises     *)
(* ValueError: then no count is returned and nothing is written.           *)
(***************************************************************************)
C9_CountOrValueError ==
    \A w \in Threads : wout[w].called =>
        LET r == wreq[w]
            failed == IF r.op = "signup" THEN "Failed to sign up student"
                      ELSE "Failed to unregister student"
        IN IF ~DictHas(wdata[w], r.name)
           THEN /\ wout[w].exc = "" /\ wout[w].modified_count = 0
                /\ ~wout[w].written
                /\ IsError(wresp[w], 500, failed)
           ELSE IF r.op = "unregister" /\ ~In(r.email, PartsIn(wdata[w], r.name))
           THEN /\ wout[w].exc = "ValueError" /\ wout[w].modified_count = -1
                /\ ~wout[w].written
           ELSE /\ wout[w].exc = "" /\ wout[w].modified_count = 1
                /\ wout[w].written
                /\ wresp[w].status = 200

\* ... reached by a handler whose activity went away after its find_one
C9_ActivityVanished ==
    /\ wout[1].called
    /\ ~DictHas(wdata[1], wreq[1].name)
    /\ wout[1].modified_count = 0
    /\ wresp[1].status = 500

(***************************************************************************)
(* C10: an update_one call that is to "$pull" a value which is not in the  *)
(* list of the record it read raises ValueError instead of returning a     *)
(* count, and writes nothing: the file stays as it is and the request is   *)
(* answered 500.  The second of two unregisters of the same email, both    *)
(* past their membership check before the first removal, ends so.          *)
(***************************************************************************)
PullOfAbsent(w) ==
    /\ wreq[w].op = "unregister"
    /\ DictHas(wdata[w], wreq[w].name)
    /\ ~In(wreq[w].email, PartsIn(wdata[w], wreq[w].name))

C10_PullOfAbsentRaises ==
    /\ [](\A w \in Threads : (wout[w].called /\ PullOfAbsent(w)) =>
            /\ wout[w].exc = "ValueError"
            /\ wout[w].modified_count = -1
            /\ ~wout[w].written
            /\ wresp[w].status = 500 /\ wresp[w].kind = "unhandled")
    /\ [][\A w \in Threads :
            (pc[w] = "update_write" /\ pc'[w] = "done" /\ PullOfAbsent(w))
                => file' = file]_vars

C10_SecondUnregisterRaised ==
    /\ pc[1] = "done" /\ pc[2] = "done"
    /\ wreq[1] = [op |-> "unregister", name |-> "Chess Club",
                   email |-> "michael@mergington.edu"]
    /\ wreq[2] = wreq[1]
    /\ wresp[1].status = 200
    /\ wout[2].exc = "ValueError"
    /\ wresp[2].status = 500
    /\ ~In("michael@mergington.edu", Parts(file, "Chess Club"))

====
